---- MODULE Spec2Model ----
(***************************************************************************)
(* State-machine model of dlima04/ringbuffer: RingBase (storage, cursors,  *)
(* is_full / is_empty), RingBuffer (write / overwrite / read / current)    *)
(* and RingQueue (blocking and non-blocking enqueue / dequeue, peeking,    *)
(* wake_all).  Every atomic load, slot access, fetch_add and wait of the   *)
(* source is one step of the thread that executes it.                      *)
(***************************************************************************)
EXTENDS Integers, Naturals, Sequences, FiniteSets, TLC

\* Template parameter size_ as instantiated by the test suite (RingQueue<int, 4>).
size_ == 4

\* Bounds of the model.
MaxHead == 6        \* no write-side call starts once MaxHead + wrap elements were written
MaxAmnt == 4        \* try_peek is called with amounts 0..MaxAmnt

Slots == 0..(size_ - 1)

RECURSIVE BitAnd(_, _)
BitAnd(a, b) ==
    IF a = 0 \/ b = 0 THEN 0
    ELSE (a % 2) * (b % 2) + 2 * BitAnd(a \div 2, b \div 2)

\* RingBase::can_mod_opt_ : size_ is a power of two.
can_mod_opt_ == BitAnd(size_, size_ - 1) = 0

\* RingBase::size_mask_
size_mask_ == size_ - 1

\* x & size_mask_
Mask(x) == BitAnd(x, size_mask_)

VARIABLES
    kind,       \* "RingQueue" or "RingBuffer": the class that was instantiated
    buff,       \* buff_ : slot -> element
    head,       \* head_ : write cursor
    tail,       \* tail_ : read cursor
    prod,       \* producer thread: program counter and locals of its call
    cons,       \* consumer thread: program counter and locals of its call
    waker,      \* position of a third thread inside wake_all()
    parked,     \* per thread: the cursor it is blocked on inside atomic::wait
    pret,       \* result of the producer's last completed call
    cret,       \* result of the consumer's last completed call
    enq,        \* history: elements whose store was published by a head_ increment
    deq,        \* history: elements returned by dequeue / try_dequeue / read
    snap,       \* history: buff_, head_, tail_ when the last write / overwrite began
    wrap,       \* number of values of a cursor (2^w for w-bit cursors); 0 when the
                \*          cursors (size_t) do not wrap within the bounds of the model
    raced       \* history: a call committed itself to a tail_ increment (overwrite
                \*          found the buffer full, read found it not empty) when fewer
                \*          elements were unread than increments were then pending

vars == <<kind, buff, head, tail, prod, cons, waker, parked, pret, cret, enq, deq, snap,
          raced, wrap>>

shared == <<buff, head, tail>>

IdleP == [pc |-> "idle", lhead |-> 0, ltail |-> 0, val |-> 0]
IdleC == [pc |-> "idle", lhead |-> 0, ltail |-> 0, plt |-> 0, old |-> 0,
          amnt |-> 0, val |-> 0]

\* Input of the write side: the k-th element handed to the container is k, as
\* in the test suite (enqueue(1), enqueue(2), ...).  Elements are never 0, the
\* value of a default-constructed slot, and never repeat, so a lost, repeated,
\* stale or reordered element is visible in the results.
NextValue == Len(enq) + 1

\* A completed call: its name, its argument, has_value()/bool result, value.
Ret(op, arg, ok, val) == [op |-> op, arg |-> arg, ok |-> ok, val |-> val]
NoRet == Ret("none", 0, FALSE, 0)

TypeOK ==
    /\ kind \in {"RingQueue", "RingBuffer"}
    /\ buff \in [Slots -> 0..(MaxHead + wrap)]
    /\ head \in Nat /\ tail \in Nat
    /\ parked \in [{"prod", "cons"} -> {"none", "head", "tail"}]
    /\ waker \in {"idle", "tail"}
    /\ raced \in BOOLEAN
    /\ wrap \in {0, 2 * size_}

Snapshot(b, h, t) == [buff |-> b, head |-> h, tail |-> t]

\* RingBase(): the static_asserts on size_, buff_{} value-initialised,
\* head_{0}, tail_{0}.
InitObject ==
    /\ can_mod_opt_ /\ size_ > 1
    /\ buff = [i \in Slots |-> 0]
    /\ head = 0
    /\ tail = 0
    /\ prod = IdleP
    /\ cons = IdleC
    /\ waker = "idle"
    /\ parked = [t \in {"prod", "cons"} |-> "none"]
    /\ pret = NoRet
    /\ cret = NoRet
    /\ enq = <<>>
    /\ deq = <<>>
    /\ snap = Snapshot([i \in Slots |-> 0], 0, 0)
    /\ raced = FALSE

(***************************************************************************)
(* std::atomic<size_t>::wait(old) / notify_all().  wait compares the       *)
(* cursor with old and blocks in one indivisible step; it returns only     *)
(* after it has seen a different value.  A blocked thread is released by   *)
(* notify_all on the same cursor, or spuriously, and then compares again.  *)
(***************************************************************************)
WaitReturns(cur, old) == cur # old

NotifyAll(c) == [t \in {"prod", "cons"} |-> IF parked[t] = c THEN "none" ELSE parked[t]]

SpuriousWake ==
    /\ \E t \in {"prod", "cons"} :
          /\ parked[t] # "none"
          /\ parked' = [parked EXCEPT ![t] = "none"]
    /\ UNCHANGED <<kind, buff, head, tail, prod, cons, waker, pret, cret, enq, deq, snap, raced, wrap>>

(***************************************************************************)
(* Arithmetic of the cursors: unsigned, modulo the number of their values. *)
(***************************************************************************)
Wrapped(x) == IF wrap = 0 THEN x ELSE x % wrap

\* mutant: the cursor stays at its largest value instead of wrapping to 0
fetch_add_Saturating(x) == IF wrap # 0 /\ x + 1 = wrap THEN x ELSE x + 1

\* std::atomic<size_t>::fetch_add(1): the new value of the cursor
fetch_add(x) == Wrapped(x + 1)

(***************************************************************************)
(* RingBase::is_full / is_empty on loaded cursor values.                   *)
(***************************************************************************)
\* mutant: full is reported one element early
is_full_at_OffByOne(lhead, ltail) == Mask(lhead + 2) = Mask(ltail)

is_full_at(lhead, ltail) == Mask(Wrapped(lhead + 1)) = Mask(ltail)

\* mutant: the cursors are masked with size_ instead of size_mask_
is_empty_at_MaskedWithSize(lhead, ltail) == BitAnd(lhead, size_) = BitAnd(ltail, size_)

is_empty_at(lhead, ltail) == Mask(lhead) = Mask(ltail)

(***************************************************************************)
(* RingQueue::enqueue                                                      *)
(***************************************************************************)
enqueue_LoadHead ==
    /\ kind = "RingQueue" /\ prod.pc = "idle" /\ Len(enq) < MaxHead + wrap
    /\ prod' = [prod EXCEPT !.pc = "enq_load_tail", !.lhead = head, !.val = NextValue]
    /\ pret' = NoRet
    /\ UNCHANGED <<kind, buff, head, tail, cons, waker, parked, cret, enq, deq, snap, raced, wrap>>

\* mutant: the full test is left out
enqueue_LoadTail_NoFullCheck ==
    /\ prod.pc = "enq_load_tail"
    /\ prod' = [prod EXCEPT !.ltail = tail, !.pc = "enq_store"]
    /\ UNCHANGED <<kind, buff, head, tail, cons, waker, parked, pret, cret, enq, deq, snap, raced, wrap>>

enqueue_LoadTail ==
    /\ prod.pc = "enq_load_tail"
    /\ prod' = [prod EXCEPT !.ltail = tail,
                            !.pc = IF Mask(Wrapped(prod.lhead + 1)) = Mask(tail)
                                   THEN "enq_wait" ELSE "enq_store"]
    /\ UNCHANGED <<kind, buff, head, tail, cons, waker, parked, pret, cret, enq, deq, snap, raced, wrap>>

\* mutant: the wait returns without comparing tail_ with the value waited on
enqueue_Wait_NoCompare ==
    /\ prod.pc = "enq_wait" /\ parked["prod"] = "none"
    /\ prod' = [prod EXCEPT !.pc = "enq_store"]
    /\ UNCHANGED <<kind, buff, head, tail, cons, waker, parked, pret, cret, enq, deq, snap, raced, wrap>>

enqueue_Wait ==
    /\ prod.pc = "enq_wait" /\ parked["prod"] = "none"
    /\ IF WaitReturns(tail, prod.ltail)
       THEN /\ prod' = [prod EXCEPT !.pc = "enq_store"]
            /\ UNCHANGED parked
       ELSE /\ parked' = [parked EXCEPT !["prod"] = "tail"]
            /\ UNCHANGED prod
    /\ UNCHANGED <<kind, buff, head, tail, cons, waker, pret, cret, enq, deq, snap, raced, wrap>>

\* mutant: the element is stored one slot after the write cursor's slot
enqueue_Store_NextSlot ==
    /\ prod.pc = "enq_store"
    /\ buff' = [buff EXCEPT ![Mask(prod.lhead + 1)] = prod.val]
    /\ prod' = [prod EXCEPT !.pc = "enq_inc"]
    /\ UNCHANGED <<kind, head, tail, cons, waker, parked, pret, cret, enq, deq, snap, raced, wrap>>

enqueue_Store ==
    /\ prod.pc = "enq_store"
    /\ buff' = [buff EXCEPT ![Mask(prod.lhead)] = prod.val]
    /\ prod' = [prod EXCEPT !.pc = "enq_inc"]
    /\ UNCHANGED <<kind, head, tail, cons, waker, parked, pret, cret, enq, deq, snap, raced, wrap>>

enqueue_FetchAdd ==
    /\ prod.pc = "enq_inc"
    /\ head' = fetch_add(head)
    /\ enq' = Append(enq, prod.val)
    /\ prod' = [prod EXCEPT !.pc = "enq_notify"]
    /\ UNCHANGED <<kind, buff, tail, cons, waker, parked, pret, cret, deq, snap, raced, wrap>>

enqueue_Notify ==
    /\ prod.pc = "enq_notify"
    /\ parked' = NotifyAll("head")
    /\ pret' = Ret("enqueue", prod.val, TRUE, 0)
    /\ prod' = IdleP
    /\ UNCHANGED <<kind, buff, head, tail, cons, waker, cret, enq, deq, snap, raced, wrap>>

(***************************************************************************)
(* RingQueue::try_enqueue                                                  *)
(***************************************************************************)
try_enqueue_LoadHead ==
    /\ kind = "RingQueue" /\ prod.pc = "idle" /\ Len(enq) < MaxHead + wrap
    /\ prod' = [prod EXCEPT !.pc = "tenq_load_tail", !.lhead = head, !.val = NextValue]
    /\ pret' = NoRet
    /\ UNCHANGED <<kind, buff, head, tail, cons, waker, parked, cret, enq, deq, snap, raced, wrap>>

\* mutant: a full queue is not rejected
try_enqueue_LoadTail_NoFullCheck ==
    /\ prod.pc = "tenq_load_tail"
    /\ prod' = [prod EXCEPT !.ltail = tail, !.pc = "tenq_store"]
    /\ UNCHANGED <<kind, buff, head, tail, cons, waker, parked, pret, cret, enq, deq, snap, raced, wrap>>

try_enqueue_LoadTail ==
    /\ prod.pc = "tenq_load_tail"
    /\ IF Mask(Wrapped(prod.lhead + 1)) = Mask(tail)
       THEN /\ pret' = Ret("try_enqueue", prod.val, FALSE, 0)
            /\ prod' = IdleP
       ELSE /\ prod' = [prod EXCEPT !.ltail = tail, !.pc = "tenq_store"]
            /\ UNCHANGED pret
    /\ UNCHANGED <<kind, buff, head, tail, cons, waker, parked, cret, enq, deq, snap, raced, wrap>>

try_enqueue_Store ==
    /\ prod.pc = "tenq_store"
    /\ buff' = [buff EXCEPT ![Mask(prod.lhead)] = prod.val]
    /\ prod' = [prod EXCEPT !.pc = "tenq_inc"]
    /\ UNCHANGED <<kind, head, tail, cons, waker, parked, pret, cret, enq, deq, snap, raced, wrap>>

try_enqueue_FetchAdd ==
    /\ prod.pc = "tenq_inc"
    /\ head' = fetch_add(head)
    /\ enq' = Append(enq, prod.val)
    /\ prod' = [prod EXCEPT !.pc = "tenq_notify"]
    /\ UNCHANGED <<kind, buff, tail, cons, waker, parked, pret, cret, deq, snap, raced, wrap>>

try_enqueue_Notify ==
    /\ prod.pc = "tenq_notify"
    /\ parked' = NotifyAll("head")
    /\ pret' = Ret("try_enqueue", prod.val, TRUE, 0)
    /\ prod' = IdleP
    /\ UNCHANGED <<kind, buff, head, tail, cons, waker, cret, enq, deq, snap, raced, wrap>>

(***************************************************************************)
(* RingQueue::dequeue                                                      *)
(***************************************************************************)
dequeue_LoadHead ==
    /\ kind = "RingQueue" /\ cons.pc = "idle"
    /\ cons' = [cons EXCEPT !.pc = "deq_load_tail", !.lhead = head]
    /\ cret' = NoRet
    /\ UNCHANGED <<kind, buff, head, tail, prod, waker, parked, pret, enq, deq, snap, raced, wrap>>

dequeue_LoadTail ==
    /\ cons.pc = "deq_load_tail"
    /\ cons' = [cons EXCEPT !.ltail = tail,
                            !.pc = IF Mask(cons.lhead) = Mask(tail)
                                   THEN "deq_wait" ELSE "deq_copy"]
    /\ UNCHANGED <<kind, buff, head, tail, prod, waker, parked, pret, cret, enq, deq, snap, raced, wrap>>

\* mutant: the thread blocks without comparing head_ with the value waited on
dequeue_Wait_BlocksBlindly ==
    /\ cons.pc = "deq_wait" /\ parked["cons"] = "none"
    /\ parked' = [parked EXCEPT !["cons"] = "head"]
    /\ UNCHANGED <<kind, buff, head, tail, prod, cons, waker, pret, cret, enq, deq, snap, raced, wrap>>

\* mutant: the wait returns without comparing head_ with the value waited on
dequeue_Wait_NoCompare ==
    /\ cons.pc = "deq_wait" /\ parked["cons"] = "none"
    /\ cons' = [cons EXCEPT !.pc = "deq_copy"]
    /\ UNCHANGED <<kind, buff, head, tail, prod, waker, parked, pret, cret, enq, deq, snap, raced, wrap>>

dequeue_Wait ==
    /\ cons.pc = "deq_wait" /\ parked["cons"] = "none"
    /\ IF WaitReturns(head, cons.lhead)
       THEN /\ cons' = [cons EXCEPT !.pc = "deq_copy"]
            /\ UNCHANGED parked
       ELSE /\ parked' = [parked EXCEPT !["cons"] = "head"]
            /\ UNCHANGED cons
    /\ UNCHANGED <<kind, buff, head, tail, prod, waker, pret, cret, enq, deq, snap, raced, wrap>>

dequeue_Copy ==
    /\ cons.pc = "deq_copy"
    /\ cons' = [cons EXCEPT !.val = buff[Mask(tail)], !.pc = "deq_inc"]
    /\ UNCHANGED <<kind, buff, head, tail, prod, waker, parked, pret, cret, enq, deq, snap, raced, wrap>>

dequeue_FetchAdd ==
    /\ cons.pc = "deq_inc"
    /\ tail' = fetch_add(tail)
    /\ cons' = [cons EXCEPT !.pc = "deq_notify"]
    /\ UNCHANGED <<kind, buff, head, prod, waker, parked, pret, cret, enq, deq, snap, raced, wrap>>

dequeue_Notify ==
    /\ cons.pc = "deq_notify"
    /\ parked' = NotifyAll("tail")
    /\ cret' = Ret("dequeue", 0, TRUE, cons.val)
    /\ deq' = Append(deq, cons.val)
    /\ cons' = IdleC
    /\ UNCHANGED <<kind, buff, head, tail, prod, waker, pret, enq, snap, raced, wrap>>

(***************************************************************************)
(* RingQueue::try_dequeue                                                  *)
(***************************************************************************)
try_dequeue_LoadHead ==
    /\ kind = "RingQueue" /\ cons.pc = "idle"
    /\ cons' = [cons EXCEPT !.pc = "tdeq_load_tail", !.lhead = Mask(head)]
    /\ cret' = NoRet
    /\ UNCHANGED <<kind, buff, head, tail, prod, waker, parked, pret, enq, deq, snap, raced, wrap>>

\* mutant: the empty test is left out
try_dequeue_LoadTail_NoEmptyCheck ==
    /\ cons.pc = "tdeq_load_tail"
    /\ cons' = [cons EXCEPT !.ltail = Mask(tail), !.pc = "tdeq_copy"]
    /\ UNCHANGED <<kind, buff, head, tail, prod, waker, parked, pret, cret, enq, deq, snap, raced, wrap>>

try_dequeue_LoadTail ==
    /\ cons.pc = "tdeq_load_tail"
    /\ IF cons.lhead = Mask(tail)
       THEN /\ cret' = Ret("try_dequeue", 0, FALSE, 0)
            /\ cons' = IdleC
       ELSE /\ cons' = [cons EXCEPT !.ltail = Mask(tail), !.pc = "tdeq_copy"]
            /\ UNCHANGED cret
    /\ UNCHANGED <<kind, buff, head, tail, prod, waker, parked, pret, enq, deq, snap, raced, wrap>>

try_dequeue_Copy ==
    /\ cons.pc = "tdeq_copy"
    /\ cons' = [cons EXCEPT !.val = buff[cons.ltail], !.pc = "tdeq_inc"]
    /\ UNCHANGED <<kind, buff, head, tail, prod, waker, parked, pret, cret, enq, deq, snap, raced, wrap>>

try_dequeue_FetchAdd ==
    /\ cons.pc = "tdeq_inc"
    /\ tail' = fetch_add(tail)
    /\ cons' = [cons EXCEPT !.pc = "tdeq_notify"]
    /\ UNCHANGED <<kind, buff, head, prod, waker, parked, pret, cret, enq, deq, snap, raced, wrap>>

try_dequeue_Notify ==
    /\ cons.pc = "tdeq_notify"
    /\ parked' = NotifyAll("tail")
    /\ cret' = Ret("try_dequeue", 0, TRUE, cons.val)
    /\ deq' = Append(deq, cons.val)
    /\ cons' = IdleC
    /\ UNCHANGED <<kind, buff, head, tail, prod, waker, pret, enq, snap, raced, wrap>>

(***************************************************************************)
(* RingQueue::try_current                                                  *)
(***************************************************************************)
try_current_LoadHead ==
    /\ kind = "RingQueue" /\ cons.pc = "idle"
    /\ cons' = [cons EXCEPT !.pc = "tcur_load_tail", !.lhead = head]
    /\ cret' = NoRet
    /\ UNCHANGED <<kind, buff, head, tail, prod, waker, parked, pret, enq, deq, snap, raced, wrap>>

try_current_LoadTail ==
    /\ cons.pc = "tcur_load_tail"
    /\ IF Mask(cons.lhead) = Mask(tail)
       THEN /\ cret' = Ret("try_current", 0, FALSE, 0)
            /\ cons' = IdleC
       ELSE /\ cons' = [cons EXCEPT !.ltail = tail, !.pc = "tcur_read"]
            /\ UNCHANGED cret
    /\ UNCHANGED <<kind, buff, head, tail, prod, waker, parked, pret, enq, deq, snap, raced, wrap>>

try_current_Read ==
    /\ cons.pc = "tcur_read"
    /\ cret' = Ret("try_current", 0, TRUE, buff[Mask(cons.ltail)])
    /\ cons' = IdleC
    /\ UNCHANGED <<kind, buff, head, tail, prod, waker, parked, pret, enq, deq, snap, raced, wrap>>

(***************************************************************************)
(* RingQueue::current                                                      *)
(***************************************************************************)
current_LoadHead ==
    /\ kind = "RingQueue" /\ cons.pc = "idle"
    /\ cons' = [cons EXCEPT !.pc = "cur_load_tail", !.lhead = head]
    /\ cret' = NoRet
    /\ UNCHANGED <<kind, buff, head, tail, prod, waker, parked, pret, enq, deq, snap, raced, wrap>>

current_LoadTail ==
    /\ cons.pc = "cur_load_tail"
    /\ cons' = [cons EXCEPT !.ltail = tail,
                            !.pc = IF Mask(cons.lhead) = Mask(tail)
                                   THEN "cur_wait" ELSE "cur_read"]
    /\ UNCHANGED <<kind, buff, head, tail, prod, waker, parked, pret, cret, enq, deq, snap, raced, wrap>>

\* mutant: the wait returns without comparing head_ with the value waited on
current_Wait_NoCompare ==
    /\ cons.pc = "cur_wait" /\ parked["cons"] = "none"
    /\ cons' = [cons EXCEPT !.pc = "cur_read"]
    /\ UNCHANGED <<kind, buff, head, tail, prod, waker, parked, pret, cret, enq, deq, snap, raced, wrap>>

current_Wait ==
    /\ cons.pc = "cur_wait" /\ parked["cons"] = "none"
    /\ IF WaitReturns(head, cons.lhead)
       THEN /\ cons' = [cons EXCEPT !.pc = "cur_read"]
            /\ UNCHANGED parked
       ELSE /\ parked' = [parked EXCEPT !["cons"] = "head"]
            /\ UNCHANGED cons
    /\ UNCHANGED <<kind, buff, head, tail, prod, waker, pret, cret, enq, deq, snap, raced, wrap>>

current_Read ==
    /\ cons.pc = "cur_read"
    /\ cret' = Ret("current", 0, TRUE, buff[Mask(cons.ltail)])
    /\ cons' = IdleC
    /\ UNCHANGED <<kind, buff, head, tail, prod, waker, parked, pret, enq, deq, snap, raced, wrap>>

(***************************************************************************)
(* RingQueue::can_peek, called directly or from the loop of peek           *)
(***************************************************************************)
\* mutant: the wrapped case counts one slot too many
max_distance_OneTooMany(lhead, ltail) ==
    IF lhead >= ltail THEN lhead - ltail ELSE (size_ - ltail) + lhead + 1

\* mutant: the wrapped case is measured the wrong way round
max_distance_NoWrap(lhead, ltail) ==
    IF lhead >= ltail THEN lhead - ltail ELSE ltail - lhead

max_distance(lhead, ltail) ==
    IF lhead >= ltail THEN lhead - ltail ELSE (size_ - ltail) + lhead

can_peek_result(lhead, ltail, amnt) == amnt < max_distance(lhead, ltail)

can_peek_LoadHead ==
    /\ kind = "RingQueue" /\ cons.pc = "idle"
    /\ \E a \in 0..(size_ - 1) :
          cons' = [cons EXCEPT !.pc = "cp_load_tail", !.lhead = Mask(head), !.amnt = a]
    /\ cret' = NoRet
    /\ UNCHANGED <<kind, buff, head, tail, prod, waker, parked, pret, enq, deq, snap, raced, wrap>>

can_peek_LoadTail ==
    /\ cons.pc = "cp_load_tail"
    /\ cret' = Ret("can_peek", cons.amnt,
                   can_peek_result(cons.lhead, Mask(tail), cons.amnt), 0)
    /\ cons' = IdleC
    /\ UNCHANGED <<kind, buff, head, tail, prod, waker, parked, pret, enq, deq, snap, raced, wrap>>

(***************************************************************************)
(* RingQueue::try_peek                                                     *)
(***************************************************************************)
try_peek_max_distance(lhead, ltail) ==
    IF lhead >= ltail THEN lhead - ltail ELSE (size_ - ltail) + lhead

try_peek_LoadHead ==
    /\ kind = "RingQueue" /\ cons.pc = "idle"
    /\ \E a \in 0..MaxAmnt :
          cons' = [cons EXCEPT !.pc = "tpk_load_tail", !.lhead = Mask(head), !.amnt = a]
    /\ cret' = NoRet
    /\ UNCHANGED <<kind, buff, head, tail, prod, waker, parked, pret, enq, deq, snap, raced, wrap>>

\* mutant: the amount is not compared with the number of unread elements
try_peek_LoadTail_NoAvailabilityCheck ==
    /\ cons.pc = "tpk_load_tail"
    /\ cons' = [cons EXCEPT !.ltail = Mask(tail), !.pc = "tpk_read"]
    /\ UNCHANGED <<kind, buff, head, tail, prod, waker, parked, pret, cret, enq, deq, snap, raced, wrap>>

try_peek_LoadTail ==
    /\ cons.pc = "tpk_load_tail"
    /\ IF cons.amnt >= try_peek_max_distance(cons.lhead, Mask(tail))
       THEN /\ cret' = Ret("try_peek", cons.amnt, FALSE, 0)
            /\ cons' = IdleC
       ELSE /\ cons' = [cons EXCEPT !.ltail = Mask(tail), !.pc = "tpk_read"]
            /\ UNCHANGED cret
    /\ UNCHANGED <<kind, buff, head, tail, prod, waker, parked, pret, enq, deq, snap, raced, wrap>>

\* mutant: the offset is dropped from the slot index
try_peek_Read_IgnoresAmount ==
    /\ cons.pc = "tpk_read"
    /\ cret' = Ret("try_peek", cons.amnt, TRUE, buff[Mask(cons.ltail)])
    /\ cons' = IdleC
    /\ UNCHANGED <<kind, buff, head, tail, prod, waker, parked, pret, enq, deq, snap, raced, wrap>>

try_peek_Read ==
    /\ cons.pc = "tpk_read"
    /\ cret' = Ret("try_peek", cons.amnt, TRUE, buff[Mask(cons.ltail + cons.amnt)])
    /\ cons' = IdleC
    /\ UNCHANGED <<kind, buff, head, tail, prod, waker, parked, pret, enq, deq, snap, raced, wrap>>

(***************************************************************************)
(* RingQueue::peek : while(!can_peek(amnt)) head_.wait(head_.load());      *)
(***************************************************************************)
peek_LoadTail ==
    /\ kind = "RingQueue" /\ cons.pc = "idle"
    /\ \E a \in 0..(size_ - 1) :
          cons' = [cons EXCEPT !.pc = "pk_cp_load_head", !.plt = Mask(tail), !.amnt = a]
    /\ cret' = NoRet
    /\ UNCHANGED <<kind, buff, head, tail, prod, waker, parked, pret, enq, deq, snap, raced, wrap>>

peek_CanPeekLoadHead ==
    /\ cons.pc = "pk_cp_load_head"
    /\ cons' = [cons EXCEPT !.pc = "pk_cp_load_tail", !.lhead = Mask(head)]
    /\ UNCHANGED <<kind, buff, head, tail, prod, waker, parked, pret, cret, enq, deq, snap, raced, wrap>>

peek_CanPeekLoadTail ==
    /\ cons.pc = "pk_cp_load_tail"
    /\ cons' = [cons EXCEPT !.ltail = Mask(tail),
                            !.pc = IF can_peek_result(cons.lhead, Mask(tail), cons.amnt)
                                   THEN "pk_read" ELSE "pk_load_old"]
    /\ UNCHANGED <<kind, buff, head, tail, prod, waker, parked, pret, cret, enq, deq, snap, raced, wrap>>

peek_LoadOld ==
    /\ cons.pc = "pk_load_old"
    /\ cons' = [cons EXCEPT !.old = head, !.pc = "pk_wait"]
    /\ UNCHANGED <<kind, buff, head, tail, prod, waker, parked, pret, cret, enq, deq, snap, raced, wrap>>

peek_Wait ==
    /\ cons.pc = "pk_wait" /\ parked["cons"] = "none"
    /\ IF WaitReturns(head, cons.old)
       THEN /\ cons' = [cons EXCEPT !.pc = "pk_cp_load_head"]
            /\ UNCHANGED parked
       ELSE /\ parked' = [parked EXCEPT !["cons"] = "head"]
            /\ UNCHANGED cons
    /\ UNCHANGED <<kind, buff, head, tail, prod, waker, pret, cret, enq, deq, snap, raced, wrap>>

peek_Read ==
    /\ cons.pc = "pk_read"
    /\ cret' = Ret("peek", cons.amnt, TRUE, buff[Mask(cons.plt + cons.amnt)])
    /\ cons' = IdleC
    /\ UNCHANGED <<kind, buff, head, tail, prod, waker, parked, pret, enq, deq, snap, raced, wrap>>

(***************************************************************************)
(* RingQueue::wake_all, called by a third thread                           *)
(***************************************************************************)
wake_all_NotifyHead ==
    /\ kind = "RingQueue" /\ waker = "idle"
    /\ parked' = NotifyAll("head")
    /\ waker' = "tail"
    /\ UNCHANGED <<kind, buff, head, tail, prod, cons, pret, cret, enq, deq, snap, raced, wrap>>

wake_all_NotifyTail ==
    /\ waker = "tail"
    /\ parked' = NotifyAll("tail")
    /\ waker' = "idle"
    /\ UNCHANGED <<kind, buff, head, tail, prod, cons, pret, cret, enq, deq, snap, raced, wrap>>

(***************************************************************************)
(* RingBase::is_full / is_empty as calls (either class)                    *)
(***************************************************************************)
is_full_LoadHead ==
    /\ cons.pc = "idle"
    /\ cons' = [cons EXCEPT !.pc = "full_load_tail", !.lhead = head]
    /\ cret' = NoRet
    /\ UNCHANGED <<kind, buff, head, tail, prod, waker, parked, pret, enq, deq, snap, raced, wrap>>

is_full_LoadTail ==
    /\ cons.pc = "full_load_tail"
    /\ cret' = Ret("is_full", 0, is_full_at(cons.lhead, tail), 0)
    /\ cons' = IdleC
    /\ UNCHANGED <<kind, buff, head, tail, prod, waker, parked, pret, enq, deq, snap, raced, wrap>>

is_empty_LoadHead ==
    /\ cons.pc = "idle"
    /\ cons' = [cons EXCEPT !.pc = "empty_load_tail", !.lhead = head]
    /\ cret' = NoRet
    /\ UNCHANGED <<kind, buff, head, tail, prod, waker, parked, pret, enq, deq, snap, raced, wrap>>

is_empty_LoadTail ==
    /\ cons.pc = "empty_load_tail"
    /\ cret' = Ret("is_empty", 0, is_empty_at(cons.lhead, tail), 0)
    /\ cons' = IdleC
    /\ UNCHANGED <<kind, buff, head, tail, prod, waker, parked, pret, enq, deq, snap, raced, wrap>>

(***************************************************************************)
(* RingBuffer::write                                                       *)
(***************************************************************************)
write_IsFullLoadHead ==
    /\ kind = "RingBuffer" /\ prod.pc = "idle" /\ Len(enq) < MaxHead + wrap
    /\ prod' = [prod EXCEPT !.pc = "wr_full_tail", !.lhead = head, !.val = NextValue]
    /\ pret' = NoRet
    /\ snap' = Snapshot(buff, head, tail)
    /\ UNCHANGED <<kind, buff, head, tail, cons, waker, parked, cret, enq, deq, raced, wrap>>

write_IsFullLoadTail ==
    /\ prod.pc = "wr_full_tail"
    /\ IF is_full_at(prod.lhead, tail)
       THEN /\ pret' = Ret("write", prod.val, FALSE, 0)
            /\ prod' = IdleP
       ELSE /\ prod' = [prod EXCEPT !.ltail = tail, !.pc = "wr_store"]
            /\ UNCHANGED pret
    /\ UNCHANGED <<kind, buff, head, tail, cons, waker, parked, cret, enq, deq, snap, raced, wrap>>

write_Store ==
    /\ prod.pc = "wr_store"
    /\ buff' = [buff EXCEPT ![Mask(head)] = prod.val]
    /\ prod' = [prod EXCEPT !.pc = "wr_inc"]
    /\ UNCHANGED <<kind, head, tail, cons, waker, parked, pret, cret, enq, deq, snap, raced, wrap>>

write_FetchAdd ==
    /\ prod.pc = "wr_inc"
    /\ head' = fetch_add(head)
    /\ enq' = Append(enq, prod.val)
    /\ pret' = Ret("write", prod.val, TRUE, 0)
    /\ prod' = IdleP
    /\ UNCHANGED <<kind, buff, tail, cons, waker, parked, cret, deq, snap, raced, wrap>>

(***************************************************************************)
(* History of RingBuffer's two writers of tail_.  overwrite increments     *)
(* tail_ once is_full() has answered true, read once its emptiness test    *)
(* has answered false; between the answer and the fetch_add the increment  *)
(* is pending.                                                             *)
(***************************************************************************)
DropPending == IF prod.pc = "ow_drop" THEN 1 ELSE 0

ReadPending == IF cons.pc \in {"rd_copy", "rd_inc"} THEN 1 ELSE 0

\* n pending increments of tail_ are more than the elements that are unread
\* (head_ - tail_ in the cursors' unsigned arithmetic)
Overdrawn(n) == n > Wrapped(head - tail)

(***************************************************************************)
(* RingBuffer::overwrite                                                   *)
(***************************************************************************)
overwrite_IsFullLoadHead ==
    /\ kind = "RingBuffer" /\ prod.pc = "idle" /\ Len(enq) < MaxHead + wrap
    /\ prod' = [prod EXCEPT !.pc = "ow_full_tail", !.lhead = head, !.val = NextValue]
    /\ pret' = NoRet
    /\ snap' = Snapshot(buff, head, tail)
    /\ UNCHANGED <<kind, buff, head, tail, cons, waker, parked, cret, enq, deq, raced, wrap>>

\* mutant: the read cursor is advanced whether or not the buffer is full
overwrite_IsFullLoadTail_AlwaysDrops ==
    /\ prod.pc = "ow_full_tail"
    /\ prod' = [prod EXCEPT !.ltail = tail, !.pc = "ow_drop"]
    /\ UNCHANGED <<kind, buff, head, tail, cons, waker, parked, pret, cret, enq, deq, snap, raced, wrap>>

overwrite_IsFullLoadTail ==
    /\ prod.pc = "ow_full_tail"
    /\ prod' = [prod EXCEPT !.ltail = tail,
                            !.pc = IF is_full_at(prod.lhead, tail)
                                   THEN "ow_drop" ELSE "ow_store"]
    /\ raced' = (raced \/ (is_full_at(prod.lhead, tail) /\ Overdrawn(1 + ReadPending)))
    /\ UNCHANGED <<kind, buff, head, tail, cons, waker, parked, pret, cret, enq, deq, snap, wrap>>

\* mutant: the read cursor is not advanced
overwrite_DropOldest_Forgotten ==
    /\ prod.pc = "ow_drop"
    /\ prod' = [prod EXCEPT !.pc = "ow_store"]
    /\ UNCHANGED <<kind, buff, head, tail, cons, waker, parked, pret, cret, enq, deq, snap, raced, wrap>>

overwrite_DropOldest ==
    /\ prod.pc = "ow_drop"
    /\ tail' = fetch_add(tail)
    /\ prod' = [prod EXCEPT !.pc = "ow_store"]
    /\ UNCHANGED <<kind, buff, head, cons, waker, parked, pret, cret, enq, deq, snap, raced, wrap>>

\* mutant: the element is stored into the slot of the oldest unread element
overwrite_Store_OldestSlot ==
    /\ prod.pc = "ow_store"
    /\ buff' = [buff EXCEPT ![Mask(tail)] = prod.val]
    /\ prod' = [prod EXCEPT !.pc = "ow_inc"]
    /\ UNCHANGED <<kind, head, tail, cons, waker, parked, pret, cret, enq, deq, snap, raced, wrap>>

overwrite_Store ==
    /\ prod.pc = "ow_store"
    /\ buff' = [buff EXCEPT ![Mask(head)] = prod.val]
    /\ prod' = [prod EXCEPT !.pc = "ow_inc"]
    /\ UNCHANGED <<kind, head, tail, cons, waker, parked, pret, cret, enq, deq, snap, raced, wrap>>

overwrite_FetchAdd ==
    /\ prod.pc = "ow_inc"
    /\ head' = fetch_add(head)
    /\ enq' = Append(enq, prod.val)
    /\ pret' = Ret("overwrite", prod.val, TRUE, 0)
    /\ prod' = IdleP
    /\ UNCHANGED <<kind, buff, tail, cons, waker, parked, cret, deq, snap, raced, wrap>>

(***************************************************************************)
(* RingBuffer::read                                                        *)
(***************************************************************************)
read_LoadHead ==
    /\ kind = "RingBuffer" /\ cons.pc = "idle"
    /\ cons' = [cons EXCEPT !.pc = "rd_load_tail", !.lhead = Mask(head)]
    /\ cret' = NoRet
    /\ UNCHANGED <<kind, buff, head, tail, prod, waker, parked, pret, enq, deq, snap, raced, wrap>>

read_LoadTail ==
    /\ cons.pc = "rd_load_tail"
    /\ IF cons.lhead = Mask(tail)
       THEN /\ cret' = Ret("read", 0, FALSE, 0)
            /\ cons' = IdleC
       ELSE /\ cons' = [cons EXCEPT !.ltail = Mask(tail), !.pc = "rd_copy"]
            /\ UNCHANGED cret
    /\ raced' = (raced \/ (cons.lhead # Mask(tail) /\ Overdrawn(1 + DropPending)))
    /\ UNCHANGED <<kind, buff, head, tail, prod, waker, parked, pret, enq, deq, snap, wrap>>

\* mutant: the slot after the read cursor's slot is copied
read_Copy_NextSlot ==
    /\ cons.pc = "rd_copy"
    /\ cons' = [cons EXCEPT !.val = buff[Mask(cons.ltail + 1)], !.pc = "rd_inc"]
    /\ UNCHANGED <<kind, buff, head, tail, prod, waker, parked, pret, cret, enq, deq, snap, raced, wrap>>

read_Copy ==
    /\ cons.pc = "rd_copy"
    /\ cons' = [cons EXCEPT !.val = buff[cons.ltail], !.pc = "rd_inc"]
    /\ UNCHANGED <<kind, buff, head, tail, prod, waker, parked, pret, cret, enq, deq, snap, raced, wrap>>

read_FetchAdd ==
    /\ cons.pc = "rd_inc"
    /\ tail' = fetch_add(tail)
    /\ cret' = Ret("read", 0, TRUE, cons.val)
    /\ deq' = Append(deq, cons.val)
    /\ cons' = IdleC
    /\ UNCHANGED <<kind, buff, head, prod, waker, parked, pret, enq, snap, raced, wrap>>

(***************************************************************************)
(* RingBuffer::try_current                                                 *)
(***************************************************************************)
rb_try_current_LoadHead ==
    /\ kind = "RingBuffer" /\ cons.pc = "idle"
    /\ cons' = [cons EXCEPT !.pc = "rtcur_load_tail", !.lhead = head]
    /\ cret' = NoRet
    /\ UNCHANGED <<kind, buff, head, tail, prod, waker, parked, pret, enq, deq, snap, raced, wrap>>

rb_try_current_LoadTail ==
    /\ cons.pc = "rtcur_load_tail"
    /\ IF Mask(cons.lhead) = Mask(tail)
       THEN /\ cret' = Ret("try_current", 0, FALSE, 0)
            /\ cons' = IdleC
       ELSE /\ cons' = [cons EXCEPT !.ltail = tail, !.pc = "rtcur_read"]
            /\ UNCHANGED cret
    /\ UNCHANGED <<kind, buff, head, tail, prod, waker, parked, pret, enq, deq, snap, raced, wrap>>

rb_try_current_Read ==
    /\ cons.pc = "rtcur_read"
    /\ cret' = Ret("try_current", 0, TRUE, buff[Mask(cons.ltail)])
    /\ cons' = IdleC
    /\ UNCHANGED <<kind, buff, head, tail, prod, waker, parked, pret, enq, deq, snap, raced, wrap>>

(***************************************************************************)
(* RingBuffer::current                                                     *)
(***************************************************************************)
rb_current_LoadHead ==
    /\ kind = "RingBuffer" /\ cons.pc = "idle"
    /\ cons' = [cons EXCEPT !.pc = "rcur_load_tail", !.lhead = head]
    /\ cret' = NoRet
    /\ UNCHANGED <<kind, buff, head, tail, prod, waker, parked, pret, enq, deq, snap, raced, wrap>>

rb_current_LoadTail ==
    /\ cons.pc = "rcur_load_tail"
    /\ cons' = [cons EXCEPT !.ltail = tail,
                            !.pc = IF Mask(cons.lhead) = Mask(tail)
                                   THEN "rcur_wait" ELSE "rcur_read"]
    /\ UNCHANGED <<kind, buff, head, tail, prod, waker, parked, pret, cret, enq, deq, snap, raced, wrap>>

rb_current_Wait ==
    /\ cons.pc = "rcur_wait" /\ parked["cons"] = "none"
    /\ IF WaitReturns(head, cons.lhead)
       THEN /\ cons' = [cons EXCEPT !.pc = "rcur_read"]
            /\ UNCHANGED parked
       ELSE /\ parked' = [parked EXCEPT !["cons"] = "head"]
            /\ UNCHANGED cons
    /\ UNCHANGED <<kind, buff, head, tail, prod, waker, pret, cret, enq, deq, snap, raced, wrap>>

rb_current_Read ==
    /\ cons.pc = "rcur_read"
    /\ cret' = Ret("current", 0, TRUE, buff[Mask(cons.ltail)])
    /\ cons' = IdleC
    /\ UNCHANGED <<kind, buff, head, tail, prod, waker, parked, pret, enq, deq, snap, raced, wrap>>

QueueInit == kind = "RingQueue" /\ wrap = 0 /\ InitObject

QueueProducerBegin == enqueue_LoadHead \/ try_enqueue_LoadHead

QueueProducerCont ==
    \/ enqueue_LoadTail \/ enqueue_Wait \/ enqueue_Store
    \/ enqueue_FetchAdd \/ enqueue_Notify
    \/ try_enqueue_LoadTail \/ try_enqueue_Store
    \/ try_enqueue_FetchAdd \/ try_enqueue_Notify

QueueConsumerBegin ==
    \/ dequeue_LoadHead \/ try_dequeue_LoadHead
    \/ try_current_LoadHead \/ current_LoadHead
    \/ can_peek_LoadHead \/ try_peek_LoadHead \/ peek_LoadTail
    \/ is_full_LoadHead \/ is_empty_LoadHead

QueueConsumerCont ==
    \/ dequeue_LoadTail \/ dequeue_Wait \/ dequeue_Copy
    \/ dequeue_FetchAdd \/ dequeue_Notify
    \/ try_dequeue_LoadTail \/ try_dequeue_Copy
    \/ try_dequeue_FetchAdd \/ try_dequeue_Notify
    \/ try_current_LoadTail \/ try_current_Read
    \/ current_LoadTail \/ current_Wait \/ current_Read
    \/ can_peek_LoadTail
    \/ try_peek_LoadTail \/ try_peek_Read
    \/ peek_CanPeekLoadHead \/ peek_CanPeekLoadTail
    \/ peek_LoadOld \/ peek_Wait \/ peek_Read
    \/ is_full_LoadTail \/ is_empty_LoadTail

WakerStep == wake_all_NotifyHead \/ wake_all_NotifyTail

QueueNext ==
    \/ QueueProducerBegin \/ QueueProducerCont
    \/ QueueConsumerBegin \/ QueueConsumerCont
    \/ WakerStep
    \/ SpuriousWake

(***************************************************************************)
(* One caller at a time: a call starts only when the other thread has no   *)
(* call in progress, or is blocked inside a wait whose cursor still has    *)
(* the value it waits on.                                                  *)
(***************************************************************************)
ProducerQuiet ==
    \/ prod.pc = "idle"
    \/ prod.pc = "enq_wait" /\ ~WaitReturns(tail, prod.ltail)

ConsumerQuiet ==
    \/ cons.pc = "idle"
    \/ cons.pc \in {"deq_wait", "cur_wait", "rcur_wait"} /\ ~WaitReturns(head, cons.lhead)
    \/ cons.pc = "pk_wait" /\ ~WaitReturns(head, cons.old)

BufferInit == kind = "RingBuffer" /\ wrap = 0 /\ InitObject

WriteBegin == ConsumerQuiet /\ write_IsFullLoadHead

OverwriteBegin == ConsumerQuiet /\ overwrite_IsFullLoadHead

WriteCont == write_IsFullLoadTail \/ write_Store \/ write_FetchAdd

OverwriteCont ==
    \/ overwrite_IsFullLoadTail \/ overwrite_DropOldest
    \/ overwrite_Store \/ overwrite_FetchAdd

BufferConsumerBegin ==
    /\ ProducerQuiet
    /\ \/ read_LoadHead \/ rb_try_current_LoadHead \/ rb_current_LoadHead
       \/ is_full_LoadHead \/ is_empty_LoadHead

BufferConsumerCont ==
    \/ read_LoadTail \/ read_Copy \/ read_FetchAdd
    \/ rb_try_current_LoadTail \/ rb_try_current_Read
    \/ rb_current_LoadTail \/ rb_current_Wait \/ rb_current_Read
    \/ is_full_LoadTail \/ is_empty_LoadTail

\* RingBuffer: write / read / current / is_full / is_empty, no overwrite
WriteReadNext ==
    \/ WriteBegin \/ WriteCont
    \/ BufferConsumerBegin \/ BufferConsumerCont
    \/ SpuriousWake

\* RingBuffer: every operation
BufferNext ==
    \/ WriteBegin \/ WriteCont
    \/ OverwriteBegin \/ OverwriteCont
    \/ BufferConsumerBegin \/ BufferConsumerCont
    \/ SpuriousWake

\* RingQueue, one caller at a time
QueueSeqNext ==
    \/ ConsumerQuiet /\ QueueProducerBegin
    \/ QueueProducerCont
    \/ ProducerQuiet /\ QueueConsumerBegin
    \/ QueueConsumerCont
    \/ WakerStep
    \/ SpuriousWake

\* Either class, one caller at a time
SeqInit == kind \in {"RingQueue", "RingBuffer"} /\ wrap = 0 /\ InitObject

\* (the first step of every call tests kind, so each class runs its own calls)
SeqNext == QueueSeqNext \/ BufferNext

\* RingQueue with a producer thread, a consumer thread and a thread calling wake_all
Init == QueueInit

Next == QueueNext

Spec == Init /\ [][Next]_vars

WriteReadSpec == BufferInit /\ [][WriteReadNext]_vars

BufferSpec == BufferInit /\ [][BufferNext]_vars

SeqSpec == SeqInit /\ [][SeqNext]_vars

\* Either class with a producer thread and a consumer thread running
\* concurrently; RingBuffer::overwrite is not called
ConcurrentWriteReadNext ==
    \/ write_IsFullLoadHead \/ WriteCont
    \/ read_LoadHead \/ rb_try_current_LoadHead \/ rb_current_LoadHead
    \/ BufferConsumerCont

ConcurrentNext == QueueNext \/ ConcurrentWriteReadNext

ConcurrentSpec == SeqInit /\ [][ConcurrentNext]_vars

\* RingBuffer with a producer thread and a consumer thread running
\* concurrently, overwrite included
RaceNext ==
    \/ ConcurrentWriteReadNext
    \/ overwrite_IsFullLoadHead \/ OverwriteCont
    \/ is_full_LoadHead \/ is_empty_LoadHead
    \/ SpuriousWake

RaceSpec == BufferInit /\ [][RaceNext]_vars

\* Either class, every operation, producer and consumer running concurrently
AnyNext == QueueNext \/ RaceNext

AnySpec == SeqInit /\ [][AnyNext]_vars

\* RingQueue whose producer only calls enqueue and whose consumer only calls
\* dequeue
EnqueueCont ==
    \/ enqueue_LoadTail \/ enqueue_Wait \/ enqueue_Store
    \/ enqueue_FetchAdd \/ enqueue_Notify

DequeueCont ==
    \/ dequeue_LoadTail \/ dequeue_Wait \/ dequeue_Copy
    \/ dequeue_FetchAdd \/ dequeue_Notify

EnqueueDequeueNext ==
    \/ enqueue_LoadHead \/ EnqueueCont
    \/ dequeue_LoadHead \/ DequeueCont
    \/ SpuriousWake

EnqueueDequeueSpec == QueueInit /\ [][EnqueueDequeueNext]_vars

\* Either class with cursors of 3 bits (2 * size_ values), producer and
\* consumer running concurrently, no overwrite
WrapInit == kind \in {"RingQueue", "RingBuffer"} /\ wrap = 2 * size_ /\ InitObject

WrapSpec == WrapInit /\ [][ConcurrentNext]_vars

\* Threads that can run are scheduled: every call in progress keeps taking steps.
\* Nothing obliges a thread to start another call.
FairSpec == Spec /\ WF_vars(QueueProducerCont) /\ WF_vars(QueueConsumerCont)

ConsumerFairSpec == Spec /\ WF_vars(QueueConsumerCont)

ProducerFairSpec == Spec /\ WF_vars(QueueProducerCont)

(***************************************************************************)
(* Derived state used by the properties.                                   *)
(***************************************************************************)
IsPrefix(s, t) == Len(s) <= Len(t) /\ SubSeq(t, 1, Len(s)) = s

StrictlyIncreasing(s) == \A i \in 1..(Len(s) - 1) : s[i] < s[i + 1]

\* The unread elements, oldest first: slots tail_ .. head_ - 1 taken modulo size_.
ContentsOf(b, h, t) == [i \in 1..(h - t) |-> b[Mask(t + i - 1)]]

Contents == ContentsOf(buff, head, tail)

\* The bounded FIFO the histories describe: what was written and not yet returned.
AbsFifo == SubSeq(enq, Len(deq) + 1, Len(enq))

\* A step taken by the producer / by the consumer.
ProdStep == prod' # prod \/ (parked["prod"] = "none" /\ parked'["prod"] # "none")

ConsStep == cons' # cons \/ (parked["cons"] = "none" /\ parked'["cons"] # "none")

ProdReturns(op) == prod.pc # "idle" /\ prod'.pc = "idle" /\ pret'.op = op

ConsReturns(op) == cons.pc # "idle" /\ cons'.pc = "idle" /\ cret'.op = op

\* the element at logical position p is the (p + 1)-th one whose store was published
ElementAt(p) == enq[p + 1]

(***************************************************************************)
(* C1  RingQueue, producer and consumer interleaved step by step: the      *)
(* elements returned so far by dequeue / try_dequeue are a prefix of the   *)
(* elements enqueued so far (nothing lost, repeated, reordered or returned *)
(* before its enqueue was published).                                      *)
(***************************************************************************)
C1_ReturnedIsPrefixOfEnqueued == IsPrefix(deq, enq)

\* the consumer has received an element stored after the cursors passed the
\* end of the array, while the producer is inside a call
C1_Witness == Len(deq) > size_ /\ prod.pc # "idle"

(***************************************************************************)
(* C2  RingBuffer, write and read one at a time, no overwrite: the buffer  *)
(* is a bounded FIFO of capacity size_ - 1.  The unread slots hold exactly *)
(* the elements written and not yet read, in write order; write succeeds   *)
(* iff fewer than size_ - 1 elements are unread and then appends; read     *)
(* returns and removes the oldest unread element iff there is one.         *)
(***************************************************************************)
C2_State ==
    /\ IsPrefix(deq, enq)
    /\ Contents = AbsFifo
    /\ Len(AbsFifo) <= size_ - 1

C2_Step ==
    /\ ProdReturns("write") =>
          /\ pret'.ok <=> Len(AbsFifo) < size_ - 1
          /\ AbsFifo' = IF pret'.ok THEN Append(AbsFifo, pret'.arg) ELSE AbsFifo
    /\ ConsReturns("read") =>
          /\ cret'.ok <=> AbsFifo # <<>>
          /\ cret'.ok => cret'.val = Head(AbsFifo) /\ AbsFifo' = Tail(AbsFifo)
          /\ ~cret'.ok => AbsFifo' = AbsFifo

C2_BoundedFifo == [](C2_State) /\ [][C2_Step]_vars

\* after the array was filled and drained, a read returned an element written
\* into a reused slot
C2_Witness == cret.op = "read" /\ cret.ok /\ cret.val = size_ + 1 /\ Len(deq) = size_ + 1

(***************************************************************************)
(* C3  RingBuffer, starting empty, no reads: exactly size_ - 1 writes      *)
(* succeed; is_full() is false before the (size_ - 1)-th and true after    *)
(* it; a write made while the buffer is full returns false and changes     *)
(* neither cursor nor any slot.                                            *)
(***************************************************************************)
WritePcs == {"wr_full_tail", "wr_store", "wr_inc"}

C3_State ==
    (tail = 0 /\ prod.pc = "idle") =>
        /\ head <= size_ - 1
        /\ is_full_at(head, tail) <=> head = size_ - 1

C3_Step ==
    /\ (ProdReturns("write") /\ tail = 0) => (pret'.ok <=> head < size_ - 1)
    /\ (ConsReturns("is_full") /\ tail = 0) => (cret'.ok <=> head = size_ - 1)
    /\ (ProdStep /\ (prod.pc \in WritePcs \/ prod'.pc \in WritePcs)
           /\ is_full_at(head, tail)) =>
          /\ UNCHANGED <<buff, head, tail>>
          /\ prod'.pc = "idle" => ~pret'.ok

C3_FullRejectsWrite == [](C3_State) /\ [][C3_Step]_vars

\* size_ - 1 writes succeeded, is_full() answered true, the next write failed
C3_Witness ==
    /\ tail = 0 /\ head = size_ - 1
    /\ pret.op = "write" /\ ~pret.ok
    /\ cret.op = "is_full" /\ cret.ok

(***************************************************************************)
(* C4  RingBuffer, overwrite one at a time: on a full buffer it succeeds,  *)
(* drops the oldest unread element, leaves the buffer full, and the reads  *)
(* that follow return the other unread elements in order and then the new  *)
(* one; the dropped element is never returned.  On a buffer that is not    *)
(* full it has the effect of a successful write.                           *)
(***************************************************************************)
WriteEffect(v) ==
    /\ buff' = [snap.buff EXCEPT ![Mask(snap.head)] = v]
    /\ head' = snap.head + 1
    /\ tail' = snap.tail

C4_State == StrictlyIncreasing(deq \o Contents)

C4_Step ==
    /\ ProdReturns("overwrite") =>
          LET old == ContentsOf(snap.buff, snap.head, snap.tail) IN
             /\ pret'.ok
             /\ IF Len(old) = size_ - 1
                THEN /\ Contents' = Append(Tail(old), pret'.arg)
                     /\ is_full_at(head', tail')
                ELSE WriteEffect(pret'.arg)
    /\ (ProdReturns("write") /\ pret'.ok) => WriteEffect(pret'.arg)
    /\ (ConsReturns("read") /\ cret'.ok) =>
          cret'.val = Head(Contents) /\ Contents' = Tail(Contents)

C4_OverwriteDropsOldest == [](C4_State) /\ [][C4_Step]_vars

\* overwrite hit a full buffer holding 1 .. size_ - 1, and the reads after it
\* returned 2 .. size_
C4_Witness ==
    /\ pret.op = "overwrite"
    /\ ContentsOf(snap.buff, snap.head, snap.tail) = [i \in 1..(size_ - 1) |-> i]
    /\ deq = [i \in 1..(size_ - 1) |-> i + 1]

(***************************************************************************)
(* C5  RingQueue, producer and consumer running concurrently, any mix of   *)
(* operations: 0 <= head_ - tail_ <= size_ - 1 in every reachable state.   *)
(***************************************************************************)
C5_UnreadInRange == 0 <= head - tail /\ head - tail <= size_ - 1

\* the queue is full after the cursors wrapped and the producer is parked on tail_
C5_Witness ==
    /\ head - tail = size_ - 1 /\ tail > 0
    /\ prod.pc = "enq_wait" /\ parked["prod"] = "tail"

(***************************************************************************)
(* C6  RingQueue, peek(amount) with amount <= size_ - 2 while a producer   *)
(* runs: once amount + 1 elements are unread the call eventually returns,  *)
(* and it returns the element amount positions after the read cursor and   *)
(* moves neither cursor.                                                   *)
(***************************************************************************)
PeekPcs == {"pk_cp_load_head", "pk_cp_load_tail", "pk_load_old", "pk_wait", "pk_read"}

InPeek == cons.pc \in PeekPcs

C6_Step ==
    ConsReturns("peek") =>
        /\ UNCHANGED <<head, tail>>
        /\ cret'.arg < head - tail
        /\ cret'.val = ElementAt(tail + cret'.arg)

C6_PeekEventuallyReturns ==
    /\ [][C6_Step]_vars
    /\ (InPeek /\ cons.amnt <= size_ - 2 /\ head - tail >= cons.amnt + 1) ~> ~InPeek

(***************************************************************************)
(* C7  RingQueue, dequeue(): while the queue is empty the call neither     *)
(* returns nor advances the read cursor; once the producer has completed   *)
(* an enqueue the call eventually returns (the consumer being scheduled),  *)
(* and it returns the oldest element not yet returned.                     *)
(***************************************************************************)
DequeuePcs == {"deq_load_tail", "deq_wait", "deq_copy", "deq_inc", "deq_notify"}

InDequeue == cons.pc \in DequeuePcs

C7_Step ==
    /\ (cons.pc \in DequeuePcs \ {"deq_notify"} /\ head = tail) =>
          (tail' = tail /\ cons'.pc \in DequeuePcs)
    /\ ConsReturns("dequeue") => cret'.val = enq[Len(deq) + 1]

C7_DequeueBlocksUntilEnqueue ==
    /\ [][C7_Step]_vars
    /\ (InDequeue /\ head > tail /\ prod.pc = "idle") ~> ~InDequeue

\* dequeue found the queue empty, the producer then completed exactly one
\* enqueue, and the call got past its wait
C7_Witness ==
    /\ cons.pc = "deq_copy" /\ cons.lhead = cons.ltail /\ cons.ltail = tail
    /\ head = tail + 1 /\ prod.pc = "idle" /\ pret.op = "enqueue"

(***************************************************************************)
(* C8  RingQueue, enqueue(v): while the queue is full the call stores      *)
(* nothing, does not advance the write cursor and does not return; once    *)
(* the consumer has advanced the read cursor the call eventually completes *)
(* (the producer being scheduled), storing v in the write cursor's slot    *)
(* and advancing the write cursor by one.                                  *)
(***************************************************************************)
EnqueuePcs == {"enq_load_tail", "enq_wait", "enq_store", "enq_inc", "enq_notify"}

InEnqueue == prod.pc \in EnqueuePcs

C8_Step ==
    /\ (prod.pc \in EnqueuePcs \ {"enq_notify"} /\ head - tail = size_ - 1) =>
          (head' = head /\ buff' = buff /\ prod'.pc \in EnqueuePcs)
    /\ (prod.pc = "enq_inc" /\ prod'.pc # "enq_inc") =>
          (head' = head + 1 /\ buff[Mask(head)] = prod.val)

C8_EnqueueBlocksUntilDequeue ==
    /\ [][C8_Step]_vars
    /\ (InEnqueue /\ head - tail < size_ - 1
           /\ cons.pc \notin {"deq_notify", "tdeq_notify"}) ~> ~InEnqueue

\* enqueue found the queue full, the consumer then took one element, and the
\* call got past its wait
C8_Witness ==
    /\ prod.pc = "enq_store" /\ Mask(prod.lhead + 1) = Mask(prod.ltail)
    /\ tail = prod.ltail + 1 /\ cons.pc = "idle" /\ cret.op \in {"dequeue", "try_dequeue"}

(***************************************************************************)
(* C9  RingQueue: in every reachable state and for every amount < size_,   *)
(* can_peek(amount) is true iff at least amount + 1 elements are unread;   *)
(* a call that answered true stays right until the consumer's next call.   *)
(***************************************************************************)
C9_CanPeekIffEnoughUnread ==
    /\ \A a \in 0..(size_ - 1) :
          can_peek_result(Mask(head), Mask(tail), a) <=> (head - tail >= a + 1)
    /\ (cret.op = "can_peek" /\ cret.ok) => head - tail >= cret.arg + 1

\* can_peek(size_ - 2) answered true while the masked write cursor is below
\* the masked read cursor
C9_Witness ==
    /\ cret.op = "can_peek" /\ cret.ok /\ cret.arg = size_ - 2
    /\ Mask(head) < Mask(tail)

(***************************************************************************)
(* C10  One caller at a time, either class: try_current, current,          *)
(* try_peek, peek, can_peek, is_full and is_empty change neither cursor    *)
(* nor any slot, and their result is a function of the cursors and slots   *)
(* alone (so a repeated call returns the same result): try_peek(amount)    *)
(* returns the element amount positions after the read cursor when amount  *)
(* is below the number of unread elements, and an empty result otherwise.  *)
(***************************************************************************)
NonConsumingPcs ==
    {"tcur_load_tail", "tcur_read", "cur_load_tail", "cur_wait", "cur_read",
     "cp_load_tail", "tpk_load_tail", "tpk_read",
     "pk_cp_load_head", "pk_cp_load_tail", "pk_load_old", "pk_wait", "pk_read",
     "full_load_tail", "empty_load_tail",
     "rtcur_load_tail", "rtcur_read", "rcur_load_tail", "rcur_wait", "rcur_read"}

ExpectedResult(op, a) ==
    CASE op = "try_current" ->
            IF head = tail THEN Ret(op, 0, FALSE, 0)
            ELSE Ret(op, 0, TRUE, ElementAt(tail))
      [] op = "current" -> Ret(op, 0, TRUE, ElementAt(tail))
      [] op = "try_peek" ->
            IF a < head - tail THEN Ret(op, a, TRUE, ElementAt(tail + a))
            ELSE Ret(op, a, FALSE, 0)
      [] op = "peek" -> Ret(op, a, TRUE, ElementAt(tail + a))
      [] op = "can_peek" -> Ret(op, a, a < head - tail, 0)
      [] op = "is_full" -> Ret(op, 0, head - tail = size_ - 1, 0)
      [] op = "is_empty" -> Ret(op, 0, head = tail, 0)

C10_Step ==
    /\ (ConsStep /\ (cons.pc \in NonConsumingPcs \/ cons'.pc \in NonConsumingPcs)) =>
          UNCHANGED <<buff, head, tail>>
    /\ (cons.pc \in NonConsumingPcs /\ cons'.pc = "idle") =>
          /\ cret'.op \in {"current", "peek"} => cret'.arg < head - tail
          /\ cret' = ExpectedResult(cret'.op, cret'.arg)

C10_NonConsumingReads == [][C10_Step]_vars

\* try_peek(size_ - 2) returned an element from a slot before the read
\* cursor's slot (the range of unread slots wraps)
C10_Witness ==
    /\ cret.op = "try_peek" /\ cret.ok /\ cret.arg = size_ - 2
    /\ Mask(tail + cret.arg) < Mask(tail)

(***************************************************************************)
(* C11  RingQueue, one caller at a time: try_enqueue on a full queue       *)
(* returns false and try_dequeue on an empty queue returns an empty        *)
(* result, without parking and without changing a cursor or a slot.        *)
(* Otherwise try_enqueue returns true after storing its element and        *)
(* advancing the write cursor by one, and try_dequeue returns the oldest   *)
(* unread element after advancing the read cursor by one; neither moves    *)
(* the other cursor.                                                       *)
(***************************************************************************)
TryEnqueuePcs == {"tenq_load_tail", "tenq_store", "tenq_inc", "tenq_notify"}

TryDequeuePcs == {"tdeq_load_tail", "tdeq_copy", "tdeq_inc", "tdeq_notify"}

C11_State ==
    /\ prod.pc \in TryEnqueuePcs => parked["prod"] = "none"
    /\ cons.pc \in TryDequeuePcs => parked["cons"] = "none"

C11_Step ==
    \* the step that decides: full / empty is answered at once, nothing changes
    /\ (ProdStep /\ prod.pc = "tenq_load_tail") =>
          /\ UNCHANGED <<buff, head, tail>>
          /\ IF head - tail = size_ - 1
             THEN prod'.pc = "idle" /\ pret' = Ret("try_enqueue", prod.val, FALSE, 0)
             ELSE prod'.pc \in TryEnqueuePcs
    /\ (ConsStep /\ cons.pc = "tdeq_load_tail") =>
          /\ UNCHANGED <<buff, head, tail>>
          /\ IF head = tail
             THEN cons'.pc = "idle" /\ cret' = Ret("try_dequeue", 0, FALSE, 0)
             ELSE cons'.pc \in TryDequeuePcs
    \* a call that was not rejected
    /\ (ProdStep /\ prod.pc \in TryEnqueuePcs) =>
          /\ tail' = tail /\ parked'["prod"] = "none"
          /\ head' \in {head, head + 1}
          /\ head' = head + 1 => (buff[Mask(head)] = prod.val /\ buff' = buff)
    /\ (ConsStep /\ cons.pc \in TryDequeuePcs) =>
          /\ head' = head /\ buff' = buff /\ parked'["cons"] = "none"
          /\ tail' \in {tail, tail + 1}
          /\ tail' = tail + 1 => cons.val = ElementAt(tail)
    /\ (ProdReturns("try_enqueue") /\ pret'.ok) =>
          /\ pret'.arg = prod.val /\ head = prod.lhead + 1
          /\ ElementAt(prod.lhead) = prod.val
    /\ (ConsReturns("try_dequeue") /\ cret'.ok) =>
          /\ cret'.val = ElementAt(tail - 1)
          /\ deq' = Append(deq, cret'.val)

C11_NonBlockingPaths == [](C11_State) /\ [][C11_Step]_vars

\* try_enqueue was rejected by a full queue, then the queue was emptied and
\* try_dequeue was rejected
C11_Witness ==
    /\ pret = Ret("try_enqueue", size_, FALSE, 0)
    /\ cret = Ret("try_dequeue", 0, FALSE, 0)
    /\ head = size_ - 1 /\ tail = head /\ deq = [i \in 1..(size_ - 1) |-> i]

(***************************************************************************)
(* C12  RingQueue: wake_all() changes neither cursor nor any slot, and no  *)
(* blocked call returns because of it.  A thread inside the wait of        *)
(* enqueue stays there while the read cursor has the value it waits on,    *)
(* and the queue is then still full; a thread inside the wait of dequeue,  *)
(* current or peek stays there while the write cursor has the value it     *)
(* waits on, and for dequeue / current the queue is then still empty; a    *)
(* peek(amount) does not return while at most amount elements are unread.  *)
(***************************************************************************)
C12_State ==
    /\ (prod.pc = "enq_wait" /\ tail = prod.ltail) => head - tail = size_ - 1
    /\ (cons.pc \in {"deq_wait", "cur_wait"} /\ head = cons.lhead) => head = tail

C12_Step ==
    /\ waker' # waker =>
          /\ UNCHANGED <<buff, head, tail, prod, cons, pret, cret>>
          /\ \A t \in {"prod", "cons"} : parked'[t] \in {parked[t], "none"}
    /\ (prod.pc = "enq_wait" /\ tail = prod.ltail) =>
          (prod'.pc = "enq_wait" /\ head' = head /\ buff' = buff /\ pret' = pret)
    /\ (cons.pc \in {"deq_wait", "cur_wait"} /\ head = cons.lhead) =>
          (cons'.pc = cons.pc /\ tail' = tail /\ cret' = cret)
    /\ (cons.pc = "pk_wait" /\ head = cons.old) =>
          (cons'.pc = "pk_wait" /\ cret' = cret)
    /\ (InPeek /\ head - tail <= cons.amnt) =>
          (cons'.pc \in PeekPcs \ {"pk_read"} /\ cret' = cret)

C12_WakeAllReleasesNobody == [](C12_State) /\ [][C12_Step]_vars

\* wake_all has notified head_ while the consumer is inside the wait of
\* current() on an empty queue: the consumer is awake and the cursor it waits
\* on has not moved
C12_Witness ==
    /\ waker = "tail" /\ cons.pc = "cur_wait" /\ parked["cons"] = "none"
    /\ head = cons.lhead /\ head = tail /\ head > 0 /\ prod.pc = "idle"

(***************************************************************************)
(* C13  Either class, calls made one at a time: in every reachable state   *)
(* is_empty() is true iff head_ mod size_ = tail_ mod size_ iff no element *)
(* is unread, is_full() is true iff (head_ + 1) mod size_ = tail_ mod      *)
(* size_ iff size_ - 1 elements are unread, and the two are never both     *)
(* true.                                                                   *)
(***************************************************************************)
Unread == head - tail

C13_State ==
    /\ 0 <= Unread /\ Unread <= size_ - 1
    /\ is_empty_at(head, tail) <=> (head % size_ = tail % size_)
    /\ is_empty_at(head, tail) <=> (Unread = 0)
    /\ is_full_at(head, tail) <=> ((head + 1) % size_ = tail % size_)
    /\ is_full_at(head, tail) <=> (Unread = size_ - 1)
    /\ ~(is_full_at(head, tail) /\ is_empty_at(head, tail))
    \* the unread elements are the published ones not yet returned or dropped
    /\ (prod.pc = "idle" /\ cons.pc = "idle") =>
          IF kind = "RingQueue" THEN Unread = Len(enq) - Len(deq)
          ELSE Unread <= Len(enq) - Len(deq)

C13_Step ==
    /\ ConsReturns("is_empty") => (cret'.ok <=> Unread = 0)
    /\ ConsReturns("is_full") => (cret'.ok <=> Unread = size_ - 1)

C13_FullEmptyPredicates == [](C13_State) /\ [][C13_Step]_vars

\* a RingBuffer that was read from is full after an overwrite, the write
\* cursor's slot is below the read cursor's slot, and the last is_empty()
\* answered false
C13_Witness ==
    /\ kind = "RingBuffer" /\ pret.op = "overwrite" /\ cret = Ret("is_empty", 0, FALSE, 0)
    /\ is_full_at(head, tail) /\ Mask(head) < Mask(tail) /\ Len(deq) > 0

(***************************************************************************)
(* C14  Either class, one producer and one consumer running concurrently,  *)
(* no overwrite: the producer stores the element into the write cursor's   *)
(* slot strictly before it advances the write cursor and the consumer      *)
(* copies the read cursor's slot strictly before it advances the read      *)
(* cursor.  So in every reachable state each position p with               *)
(* tail_ <= p < head_ holds in slot p mod size_ the element written for p, *)
(* and the producer never stores into a slot of that range nor into the    *)
(* slot the consumer is about to read or peek.                             *)
(***************************************************************************)
\* the slot the consumer's next step reads, if that step reads one
PendingRead ==
    CASE cons.pc = "deq_copy" -> {Mask(tail)}
      [] cons.pc \in {"tdeq_copy", "rd_copy"} -> {cons.ltail}
      [] cons.pc \in {"tcur_read", "cur_read", "rtcur_read", "rcur_read"} ->
            {Mask(cons.ltail)}
      [] cons.pc = "tpk_read" -> {Mask(cons.ltail + cons.amnt)}
      [] cons.pc = "pk_read" -> {Mask(cons.plt + cons.amnt)}
      [] OTHER -> {}

UnreadSlots == {Mask(p) : p \in tail..(head - 1)}

C14_State ==
    /\ \A p \in tail..(head - 1) : buff[Mask(p)] = ElementAt(p)
    /\ PendingRead \subseteq UnreadSlots

C14_Step ==
    /\ head' # head =>
          /\ head' = head + 1 /\ buff' = buff
          /\ buff[Mask(head)] = prod.val /\ enq'[head + 1] = prod.val
    /\ tail' # tail =>
          /\ tail' = tail + 1 /\ buff' = buff
          /\ cons.val = buff[Mask(tail)] /\ cons.val = ElementAt(tail)
    /\ buff' # buff =>
          /\ head' = head /\ tail' = tail
          /\ buff' = [buff EXCEPT ![Mask(head)] = prod.val]
          /\ Mask(head) \notin UnreadSlots \cup PendingRead

C14_StoreBeforePublish == [](C14_State) /\ [][C14_Step]_vars

\* the queue is full across the end of the array, the consumer of a RingQueue
\* is about to copy the oldest element and the producer is inside enqueue
C14_Witness ==
    /\ kind = "RingQueue" /\ cons.pc = "deq_copy" /\ prod.pc = "enq_wait"
    /\ head - tail = size_ - 1 /\ Mask(head) < Mask(tail)

(***************************************************************************)
(* C15  Either class, every operation, any interleaving: both cursors are  *)
(* 0 initially; a step changes a cursor by 0 or +1; head_ is changed only  *)
(* by write, overwrite, enqueue and try_enqueue, once per call; tail_ is   *)
(* changed only by read, dequeue and try_dequeue, once per call, and by    *)
(* overwrite, which advances it by one when, and only when, its is_full()  *)
(* test found the buffer full.                                             *)
(***************************************************************************)
HeadWriterPcs == {"enq_inc", "tenq_inc", "wr_inc", "ow_inc"}

TailWriterPcs == {"deq_inc", "tdeq_inc", "rd_inc"}

C15_Step ==
    /\ head' \in {head, head + 1} /\ tail' \in {tail, tail + 1}
    /\ head' # head => (ProdStep /\ prod.pc \in HeadWriterPcs /\ cons' = cons)
    /\ tail' # tail =>
          \/ ConsStep /\ cons.pc \in TailWriterPcs /\ prod' = prod
          \/ ProdStep /\ prod.pc = "ow_drop" /\ cons' = cons
    \* once per call: the incrementing step is left at once, and a call of the
    \* write side returns with head_ at most one above its value at the call
    /\ (ProdStep /\ prod.pc \in HeadWriterPcs) => prod'.pc \notin HeadWriterPcs
    /\ (ConsStep /\ cons.pc \in TailWriterPcs) => cons'.pc \notin TailWriterPcs
    /\ (prod.pc # "idle" /\ prod'.pc = "idle") =>
          head' = prod.lhead + (IF pret'.ok THEN 1 ELSE 0)
    \* overwrite
    /\ (ProdStep /\ prod.pc = "ow_full_tail") =>
          /\ UNCHANGED <<head, tail>>
          /\ prod'.pc = IF is_full_at(head, tail) THEN "ow_drop" ELSE "ow_store"
    /\ (ProdStep /\ prod.pc = "ow_drop") => (tail' = tail + 1 /\ prod'.pc = "ow_store")
    /\ (ProdStep /\ prod.pc \in {"ow_store", "ow_inc"}) => tail' = tail

C15_CursorOwnership == (head = 0 /\ tail = 0) /\ [][C15_Step]_vars

\* overwrite found the RingBuffer full after the cursors passed the end of the
\* array and has advanced tail_, while the consumer is inside read()
C15_Witness ==
    /\ kind = "RingBuffer" /\ prod.pc = "ow_store" /\ cons.pc = "rd_load_tail"
    /\ is_full_at(prod.lhead, prod.ltail) /\ tail = prod.ltail + 1 /\ prod.lhead > size_

(***************************************************************************)
(* C16  RingBuffer, the steps of overwrite (producer) and of read          *)
(* (consumer) interleaved arbitrarily: the read cursor never overtakes the *)
(* write cursor, and the element stored by a completed overwrite is unread *)
(* and readable right after the call unless a read returned it.            *)
(* Fails: overwrite finds the buffer full, the consumer then reads, and    *)
(* overwrite's tail_.fetch_add moves the read cursor past the write        *)
(* cursor.                                                                 *)
(***************************************************************************)
InDeq(v) == \E i \in DOMAIN deq : deq[i] = v

C16_InterleavedOverwriteSafe ==
    /\ tail <= head
    /\ (pret.op = "overwrite" /\ prod.pc = "idle") =>
          \/ tail < head /\ buff[Mask(head - 1)] = pret.arg
          \/ InDeq(pret.arg)

(***************************************************************************)
(* C16 as it holds: the same interleavings, as long as the increments of   *)
(* the read cursor that are pending (one for an overwrite that has found   *)
(* the buffer full, one for a read that has found it not empty) are never, *)
(* at the moment a call adds one, more than the unread elements.  Then the *)
(* read cursor never overtakes the write cursor, and from the return of an *)
(* overwrite until the producer's next call its element is unread in the   *)
(* slot before the write cursor unless a read returned it.                 *)
(***************************************************************************)
C16_Good ==
    /\ tail <= head
    /\ (pret.op = "overwrite" /\ prod.pc = "idle") =>
          \/ tail < head /\ buff[Mask(head - 1)] = pret.arg
          \/ InDeq(pret.arg)

C16_OverwriteSafeUnlessOverdrawn == ~raced => C16_Good

\* overwrite found the buffer full, with the cursors past the end of the
\* array, dropped the oldest element and returned; a read that overlapped
\* the call advanced the read cursor as well, and no increment was ever
\* pending without an unread element to take
C16_Witness ==
    /\ pret.op = "overwrite" /\ prod.pc = "idle" /\ ~raced
    /\ is_full_at(snap.head, snap.tail) /\ snap.head > size_
    /\ tail = snap.tail + 2 /\ head = snap.head + 1
    /\ cret.op = "read" /\ cret.ok /\ cret.val = enq[snap.tail + 1]

(***************************************************************************)
(* C17  RingQueue, a producer that only calls enqueue and a consumer that  *)
(* only calls dequeue: the two threads are never blocked at the same time  *)
(* (the producer in enqueue's wait on tail_, the consumer in dequeue's     *)
(* wait on head_), and in every reachable state at least one of them has   *)
(* a step to take.                                                         *)
(***************************************************************************)
\* a thread between two calls can start its next call
ProducerCanStep == prod.pc = "idle" \/ ENABLED EnqueueCont

ConsumerCanStep == cons.pc = "idle" \/ ENABLED DequeueCont

C17_NoDeadlock ==
    /\ ~(parked["prod"] = "tail" /\ parked["cons"] = "head")
    /\ ProducerCanStep \/ ConsumerCanStep
    /\ parked["prod"] = "tail" => (prod.pc = "enq_wait" /\ ~ENABLED EnqueueCont)
    /\ parked["cons"] = "head" => (cons.pc = "deq_wait" /\ ~ENABLED DequeueCont)

\* the producer is blocked on a full queue while the consumer, which found
\* the queue empty before the producer filled it, is about to execute its wait
C17_Witness ==
    /\ parked["prod"] = "tail" /\ head - tail = size_ - 1
    /\ cons.pc = "deq_wait" /\ parked["cons"] = "none" /\ cons.lhead = cons.ltail

(***************************************************************************)
(* C18  Cursors of w bits that wrap modulo 2^w, a multiple of size_        *)
(* (here w = 3), producer and consumer running, no overwrite: every        *)
(* increment of a cursor, the one that wraps it to 0 included, advances    *)
(* its slot index by one modulo size_; and is_full, is_empty, can_peek,    *)
(* the unread slots and the order of the returned elements are what        *)
(* cursors that never wrap would give.                                     *)
(***************************************************************************)
\* the cursors as they would be without wrapping: the number of elements
\* published, and the number of tail_ increments
UHead == Len(enq)

UTail == Len(deq) + (IF cons.pc \in {"deq_notify", "tdeq_notify"} THEN 1 ELSE 0)

C18_State ==
    /\ head = Wrapped(UHead) /\ tail = Wrapped(UTail)
    /\ Mask(head) = UHead % size_ /\ Mask(tail) = UTail % size_
    /\ 0 <= UHead - UTail /\ UHead - UTail <= size_ - 1
    /\ is_full_at(head, tail) <=> (UHead - UTail = size_ - 1)
    /\ is_empty_at(head, tail) <=> (UHead = UTail)
    /\ \A a \in 0..(size_ - 1) :
          can_peek_result(Mask(head), Mask(tail), a) <=> (a < UHead - UTail)
    /\ \A p \in UTail..(UHead - 1) : buff[p % size_] = enq[p + 1]
    /\ IsPrefix(deq, enq)

C18_Step ==
    /\ head' # head =>
          /\ Mask(head') = (Mask(head) + 1) % size_
          /\ head' = IF head = wrap - 1 THEN 0 ELSE head + 1
    /\ tail' # tail =>
          /\ Mask(tail') = (Mask(tail) + 1) % size_
          /\ tail' = IF tail = wrap - 1 THEN 0 ELSE tail + 1

C18_WrapIsInvisible == [](C18_State) /\ [][C18_Step]_vars

\* the write cursor has wrapped and the read cursor has not, the queue is
\* full, and can_peek(size_ - 2) has answered true
C18_Witness ==
    /\ kind = "RingQueue" /\ wrap > 0 /\ head < tail /\ UHead - UTail = size_ - 1
    /\ cret = Ret("can_peek", size_ - 2, TRUE, 0)

(***************************************************************************)
(* C19  RingQueue: in every reachable state can_peek(size_ - 1) is false,  *)
(* at most size_ - 1 elements being unread; so peek(size_ - 1), whose      *)
(* amount is below size_, never gets past its loop and never returns,      *)
(* whatever the producer does.                                             *)
(***************************************************************************)
C19_PeekOfCapacityNeverReturns ==
    /\ head - tail <= size_ - 1
    /\ ~can_peek_result(Mask(head), Mask(tail), size_ - 1)
    /\ (cret.op = "can_peek" /\ cret.arg = size_ - 1) => ~cret.ok
    /\ (InPeek /\ cons.amnt = size_ - 1) => cons.pc # "pk_read"
    /\ ~(cret.op = "peek" /\ cret.arg = size_ - 1)

\* peek(size_ - 1) is blocked on head_ while the queue is full, across the
\* end of the array
C19_Witness ==
    /\ cons.pc = "pk_wait" /\ cons.amnt = size_ - 1 /\ parked["cons"] = "head"
    /\ head - tail = size_ - 1 /\ Mask(head) < Mask(tail)

(***************************************************************************)
(* C20  RingQueue::try_peek, any amount (amounts of size_ and more         *)
(* included), any reachable state: the assertions amnt < size_ and         *)
(* ((ltail + amnt) & size_mask_) < size_ hold whenever they are reached,   *)
(* an amount that is out of range having been answered with an empty       *)
(* result before them; and every slot index with which any operation of    *)
(* either class accesses buff_ is in 0 .. size_ - 1.                       *)
(***************************************************************************)
\* the slot the producer's next step stores into, if that step stores
PendingStore ==
    CASE prod.pc \in {"enq_store", "tenq_store"} -> {Mask(prod.lhead)}
      [] prod.pc \in {"wr_store", "ow_store"} -> {Mask(head)}
      [] OTHER -> {}

\* assert(amnt < size_); assert(((ltail + amnt) & size_mask_) < size_);
try_peek_asserts == cons.amnt < size_ /\ Mask(cons.ltail + cons.amnt) < size_

C20_AssertionsHold ==
    /\ cons.pc = "tpk_read" => try_peek_asserts
    /\ (cons.pc = "tpk_load_tail" /\ cons.amnt >= size_) =>
          cons.amnt >= try_peek_max_distance(cons.lhead, Mask(tail))
    /\ (cret.op = "try_peek" /\ cret.arg >= size_) => ~cret.ok
    /\ PendingRead \subseteq Slots
    /\ PendingStore \subseteq Slots

\* try_peek(size_) was answered with an empty result on a full RingQueue
\* whose unread slots run across the end of the array
C20_Witness ==
    /\ cret = Ret("try_peek", size_, FALSE, 0)
    /\ head - tail = size_ - 1 /\ Mask(head) < Mask(tail) /\ cons.pc = "idle"

====
